---- MODULE Spec2Model ----
(***************************************************************************)
(* pyznap process.py: running zfs commands locally (subprocess.Popen) or   *)
(* over a connected paramiko session, classifying exit-code-1 error        *)
(* messages into ZFSError subclasses and decoding tabular output.          *)
(*                                                                         *)
(* Text is a sequence of one-character strings, so that the regular        *)
(* expression, str.splitlines and str.split are computed character by      *)
(* character.  The Python value None of a stream is the one-element        *)
(* sequence None below (no text has a multi-character element), and a      *)
(* bytes value is a text tagged with a leading "bytes" element.            *)
(***************************************************************************)
EXTENDS Integers, Sequences, FiniteSets, TLC

\* ------------------------------------------------------------------ bounds
\* exit codes of the executed command range over 0..MaxExit
MaxExit == 2
\* texts handed to the output decoder have at most MaxLen characters
MaxLen == 5
\* encoded record sequences have at most MaxRecords records ...
MaxRecords == 2
\* ... of at most MaxFields fields each
MaxFields == 2

\* ------------------------------------------------------------------ values
None == <<"None">>
Bytes(s) == <<"bytes">> \o s
IsText(s) == s = <<>> \/ s[1] \notin {"None", "bytes"}

\* PIPE = sp.PIPE, used here only as a marker of a captured stream
PIPE == "PIPE"

\* ------------------------------------------------------------- error classes
DatasetNotFoundError ==
    [name |-> "DatasetNotFoundError", errno |-> "ENOENT",
     strerror |-> <<"d", "a", "t", "a", "s", "e", "t", " ", "d", "o", "e", "s",
                    " ", "n", "o", "t", " ", "e", "x", "i", "s", "t">>]

DatasetExistsError ==
    [name |-> "DatasetExistsError", errno |-> "EEXIST",
     strerror |-> <<"d", "a", "t", "a", "s", "e", "t", " ", "a", "l", "r", "e",
                    "a", "d", "y", " ", "e", "x", "i", "s", "t", "s">>]

DatasetBusyError ==
    [name |-> "DatasetBusyError", errno |-> "EBUSY",
     strerror |-> <<"d", "a", "t", "a", "s", "e", "t", " ", "i", "s", " ", "b",
                    "u", "s", "y">>]

HoldTagNotFoundError ==
    [name |-> "HoldTagNotFoundError", errno |-> "ENOENT",
     strerror |-> <<"n", "o", " ", "s", "u", "c", "h", " ", "t", "a", "g", " ",
                    "o", "n", " ", "t", "h", "i", "s", " ", "d", "a", "t", "a",
                    "s", "e", "t">>]

HoldTagExistsError ==
    [name |-> "HoldTagExistsError", errno |-> "EEXIST",
     strerror |-> <<"t", "a", "g", " ", "a", "l", "r", "e", "a", "d", "y", " ",
                    "e", "x", "i", "s", "t", "s", " ", "o", "n", " ", "t", "h",
                    "i", "s", " ", "d", "a", "t", "a", "s", "e", "t">>]

\* the tuple the for loop of check_returncode walks, in its order
KnownErrors ==
    <<DatasetNotFoundError, DatasetExistsError, DatasetBusyError,
      HoldTagNotFoundError, HoldTagExistsError>>

\* ZFSError.__init__: OSError(errno, strerror, dataset)
ZFSError(error, dataset) ==
    [kind |-> "ZFSError", class |-> error.name, errno |-> error.errno,
     strerror |-> error.strerror, dataset |-> dataset]

\* ------------------------------------------------ the regular expression
\* pattern = r"^cannot ([^ ]+(?: [^ ]+)*?) ([^ ]+): (.+)$", re.search without
\* flags: ^ matches at the start of the text only, . matches no "\n", and $
\* matches at the end of the text or before a "\n" that ends the text.
CannotPrefix == <<"c", "a", "n", "n", "o", "t", " ">>

NoMatch == [matched |-> FALSE]

\* [^ ]+ from position p: the index of the last character of the longest run
\* of non-space characters starting at p (p - 1 when that run is empty)
RECURSIVE RunEnd(_, _)
RunEnd(s, p) ==
    IF p > Len(s) \/ s[p] = " " THEN p - 1 ELSE RunEnd(s, p + 1)

\* (.+)$ on the rest r of the text: the group, or None when it cannot match
ReasonGroup(r) ==
    LET body == IF r # <<>> /\ r[Len(r)] = "\n"
                THEN SubSeq(r, 1, Len(r) - 1) ELSE r
    IN  IF body # <<>> /\ \A i \in 1..Len(body) : body[i] # "\n"
        THEN body ELSE None

\* a slip: the action group written greedy, (?: [^ ]+)* in place of
\* (?: [^ ]+)*?, so that the object is looked for after the most action
\* tokens first
RECURSIVE MatchFrom_Greedy(_, _)
MatchFrom_Greedy(s, p) ==
    LET e == RunEnd(s, p)
        o == RunEnd(s, e + 2)
        rest == SubSeq(s, o + 2, Len(s))
        later == IF e < p \/ e + 1 > Len(s) THEN NoMatch
                 ELSE MatchFrom_Greedy(s, e + 2)
    IN  IF e < p \/ e + 1 > Len(s) THEN NoMatch
        ELSE IF later.matched THEN later
        ELSE IF /\ o >= e + 3
                /\ s[o] = ":"
                /\ o + 1 <= Len(s)
                /\ ReasonGroup(rest) # None
             THEN [matched |-> TRUE,
                   action |-> SubSeq(s, Len(CannotPrefix) + 1, e),
                   dataset |-> SubSeq(s, e + 2, o - 1),
                   reason |-> ReasonGroup(rest)]
             ELSE NoMatch

\* The backtracking search with the action group ending at the token that
\* starts at p.  A token is a longest run (a shorter one is followed by a
\* non-space, where both continuations need a space); the lazy *? tries the
\* object right after the fewest action tokens first; the object, greedy,
\* is the next run without its final colon.
RECURSIVE MatchFrom(_, _)
MatchFrom(s, p) ==
    LET e == RunEnd(s, p)
        o == RunEnd(s, e + 2)
        rest == SubSeq(s, o + 2, Len(s))
    IN  IF e < p \/ e + 1 > Len(s) THEN NoMatch
        ELSE IF /\ o >= e + 3
                /\ s[o] = ":"
                /\ o + 1 <= Len(s)
                /\ ReasonGroup(rest) # None
             THEN [matched |-> TRUE,
                   action |-> SubSeq(s, Len(CannotPrefix) + 1, e),
                   dataset |-> SubSeq(s, e + 2, o - 1),
                   reason |-> ReasonGroup(rest)]
             ELSE MatchFrom(s, e + 2)

re_search(s) ==
    IF Len(s) >= Len(CannotPrefix) /\ SubSeq(s, 1, Len(CannotPrefix)) = CannotPrefix
    THEN MatchFrom(s, Len(CannotPrefix) + 1)
    ELSE NoMatch

\* a slip: the quotes are taken off on the evidence of the first character alone
UnquoteLeadingOnly(dataset) ==
    IF dataset[1] = "'"
    THEN SubSeq(dataset, 2, Len(dataset) - 1)
    ELSE dataset

\* if dataset[0] == dataset[-1] == "'": dataset = dataset[1:-1]
Unquote(dataset) ==
    IF dataset[1] = "'" /\ dataset[Len(dataset)] = "'"
    THEN SubSeq(dataset, 2, Len(dataset) - 1)
    ELSE dataset

\* ------------------------------------------------------ CompletedProcess
CompletedProcessOf(args, returncode, stdout, stderr) ==
    [args |-> args, returncode |-> returncode, stdout |-> stdout, stderr |-> stderr]

CalledProcessError(returncode, cmd, output, stderr) ==
    [kind |-> "CalledProcessError", returncode |-> returncode, cmd |-> cmd,
     output |-> output, stderr |-> stderr]

TimeoutExpired(cmd, timeout, output, stderr) ==
    [kind |-> "TimeoutExpired", cmd |-> cmd, timeout |-> timeout,
     output |-> output, stderr |-> stderr]

NoException == [kind |-> "none"]

\* sp.CompletedProcess.check_returncode of the standard library, the superclass
SuperCheckReturncode(self) ==
    IF self.returncode # 0
    THEN CalledProcessError(self.returncode, self.args, self.stdout, self.stderr)
    ELSE NoException

\* the for loop: the first error class whose strerror is the reason, or 0
FirstKnown(reason) ==
    LET hits == {i \in 1..Len(KnownErrors) : KnownErrors[i].strerror = reason}
    IN  IF hits = {} THEN 0 ELSE CHOOSE i \in hits : \A j \in hits : i <= j

\* a slip: the known errors are looked for on every non-zero exit code
check_returncode_AnyFailure(self) ==
    IF self.returncode # 0
    THEN IF ~IsText(self.stderr)
         THEN [kind |-> "TypeError"]
         ELSE LET match == re_search(self.stderr)
              IN  IF match.matched /\ FirstKnown(match.reason) # 0
                  THEN ZFSError(KnownErrors[FirstKnown(match.reason)],
                                Unquote(match.dataset))
                  ELSE SuperCheckReturncode(self)
    ELSE SuperCheckReturncode(self)

\* a slip: an exit code 1 whose message is not known is not handed to the
\* superclass
check_returncode_NoSuper(self) ==
    IF self.returncode = 1
    THEN IF ~IsText(self.stderr)
         THEN [kind |-> "TypeError"]
         ELSE LET match == re_search(self.stderr)
              IN  IF match.matched /\ FirstKnown(match.reason) # 0
                  THEN ZFSError(KnownErrors[FirstKnown(match.reason)],
                                Unquote(match.dataset))
                  ELSE NoException
    ELSE SuperCheckReturncode(self)

\* CompletedProcess.check_returncode: the exception it raises, or NoException
check_returncode(self) ==
    IF self.returncode = 1
    THEN IF ~IsText(self.stderr)
         THEN [kind |-> "TypeError"]
         ELSE LET match == re_search(self.stderr)
              IN  IF match.matched /\ FirstKnown(match.reason) # 0
                  THEN ZFSError(KnownErrors[FirstKnown(match.reason)],
                                Unquote(match.dataset))
                  ELSE SuperCheckReturncode(self)
    ELSE SuperCheckReturncode(self)

\* ------------------------------------------------------- output decoding
\* the line boundaries of str.splitlines: "\n", "\r", "\r\n" as one, and the
\* other boundary characters, of which "\f" stands here
LineBoundaries == {"\n", "\r", "\f"}

RECURSIVE SplitFrom(_, _, _, _)
SplitFrom(s, sep, i, cur) ==
    IF i > Len(s) THEN <<cur>>
    ELSE IF s[i] = sep THEN <<cur>> \o SplitFrom(s, sep, i + 1, <<>>)
    ELSE SplitFrom(s, sep, i + 1, Append(cur, s[i]))

\* a slip: line.split(), which drops empty fields, in place of line.split(sep)
RECURSIVE DropEmpty(_)
DropEmpty(fields) ==
    IF Len(fields) = 0 THEN <<>>
    ELSE IF fields[1] = <<>> THEN DropEmpty(Tail(fields))
    ELSE <<fields[1]>> \o DropEmpty(Tail(fields))

split_DropEmpty(s, sep) == DropEmpty(SplitFrom(s, sep, 1, <<>>))

\* line.split(sep) with a one-character separator
split(s, sep) == SplitFrom(s, sep, 1, <<>>)

RECURSIVE SplitLinesFrom(_, _, _)
SplitLinesFrom(s, i, cur) ==
    IF i > Len(s) THEN (IF cur = <<>> THEN <<>> ELSE <<cur>>)
    ELSE IF s[i] = "\r" /\ i < Len(s) /\ s[i + 1] = "\n"
         THEN <<cur>> \o SplitLinesFrom(s, i + 2, <<>>)
    ELSE IF s[i] \in LineBoundaries
         THEN <<cur>> \o SplitLinesFrom(s, i + 1, <<>>)
    ELSE SplitLinesFrom(s, i + 1, Append(cur, s[i]))

\* a slip: out.split('\n') in place of out.splitlines()
splitlines_OnNewline(s) == split(s, "\n")

\* out.splitlines()
splitlines(s) == SplitLinesFrom(s, 1, <<>>)

\* None if out is None else [line.split('\t') for line in out.splitlines()]
Decode(out) ==
    IF out = None
    THEN [kind |-> "returned", isNone |-> TRUE, records |-> <<>>]
    ELSE [kind |-> "returned", isNone |-> FALSE,
          records |-> [i \in 1..Len(splitlines(out)) |-> split(splitlines(out)[i], "\t")]]

\* ------------------------------------------------------------------ state
VARIABLES
    pc,       \* the position of the call in check_output / run
    req,      \* the caller's request
    frame,    \* the parameters run was called with (popenargs[0], keywords)
    env,      \* what the executed command and the transport do in this call
    child,    \* the local child in the process table
    log,      \* the operations made on the session and its channel, in order
    loc,      \* the locals stdout, stderr, retcode of run
    ret,      \* the CompletedProcess check_output got from run
    outcome,  \* what the caller receives: a value or an exception
    hist      \* earlier outcomes of the same command under other inputs

vars == <<pc, req, frame, env, child, log, loc, ret, outcome, hist>>

\* ------------------------------------------------------------ request space
ExitCodes == 0..MaxExit

\* a command given as a list of words, and one given as a str (held as its
\* single text, which ' '.join leaves as it is)
CmdList == [isstr |-> FALSE, words |-> << <<"z", "f", "s">>, <<"l", "i", "s", "t">> >>]
CmdStr == [isstr |-> TRUE, words |-> << <<"z", "f", "s", " ", "l", "i", "s", "t">> >>]
Cmds == {CmdList, CmdStr}

\* input: the key is absent, or holds None, an empty payload or data
Inputs == {"absent", "None", "empty", "data"}

Timeouts == {"None", "finite"}

Requests ==
    [entry : {"check_output", "run"}, cmd : Cmds, ssh : BOOLEAN,
     timeout : Timeouts, check : BOOLEAN, input : Inputs,
     stdin : {"absent", "file"},
     stdoutKw : BOOLEAN,   \* 'stdout' in kwargs (run: stdout=PIPE, stderr=PIPE)
     univKw : BOOLEAN]     \* 'universal_newlines' in kwargs (True)

\* texts the command writes
OutTable == <<"a", "\t", "b", "\n", "c", "\n">>
OutTexts == {<<>>, OutTable}

ErrBusy ==
    CannotPrefix \o <<"o", "p", "e", "n", " ", "'", "t", "/", "d", "'", ":", " ">>
                 \o DatasetBusyError.strerror \o <<"\n">>
ErrDenied ==
    CannotPrefix \o <<"o", "p", "e", "n", " ", "t", "/", "d", ":", " ",
                      "d", "e", "n", "i", "e", "d">> \o <<"\n">>
ErrTexts == {<<>>, ErrBusy, ErrDenied}

\* the fates of a local child: it exits by itself, it is still running when
\* the timeout elapses (out, err: what the drain after the kill collects;
\* "timeout_held": a descendant of the child keeps the pipes open after the
\* kill, so that they never reach their end), or the wait is interrupted by
\* another exception
LocalEnvs(timeout) ==
    [fate : {"exit"}, rc : ExitCodes, out : OutTexts, err : ErrTexts]
    \cup (IF timeout = "finite"
          THEN [fate : {"timeout"}, rc : {0}, out : OutTexts, err : ErrTexts]
               \cup [fate : {"timeout_held"}, rc : {0}, out : {<<>>}, err : {<<>>}]
          ELSE {})
    \cup [fate : {"interrupt"}, rc : {0}, out : {<<>>}, err : {<<>>}]

\* the fates of a remote command: it exits and its streams are read, the
\* session refuses the request, the transport raises socket.timeout at one
\* of the steps inside the try block, or the command sends no exit status
\* ("no_status": it does not end, or it waits for its output to be read)
RemoteEnvs(timeout, stdin) ==
    [fate : {"exit"}, rc : ExitCodes, out : OutTexts, err : ErrTexts]
    \cup [fate : {"exec_fail", "no_status"}, rc : {0}, out : {<<>>}, err : {<<>>}]
    \cup (IF timeout = "finite"
          THEN [fate : {"timeout_exec", "timeout_status"}
                       \cup (IF stdin = "file" THEN {"timeout_copy"} ELSE {}),
                rc : {0}, out : {<<>>}, err : {<<>>}]
               \cup [fate : {"timeout_out"}, rc : ExitCodes, out : {<<>>}, err : {<<>>}]
               \cup [fate : {"timeout_err"}, rc : ExitCodes, out : OutTexts, err : {<<>>}]
          ELSE {})

Envs(r) == IF r.ssh THEN RemoteEnvs(r.timeout, r.stdin) ELSE LocalEnvs(r.timeout)

NoReq == [entry |-> "none"]
NoFrame == [cmd |-> "none"]
NoEnv == [fate |-> "none"]
\* run's locals; read holds the first element of the tuple of line 114, which
\* is evaluated before the second and assigned only with it
Unset == <<"unset">>
Handle == <<"handle">>
NoLoc == [stdout |-> Unset, stderr |-> Unset, retcode |-> "unset", read |-> Unset]
NoRet == [returncode |-> "none"]
NoOutcome == [kind |-> "pending"]

Init ==
    /\ pc = "idle"
    /\ req = NoReq
    /\ frame = NoFrame
    /\ env = NoEnv
    /\ child = "none"
    /\ log = <<>>
    /\ loc = NoLoc
    /\ ret = NoRet
    /\ outcome = NoOutcome
    /\ hist = {}

\* ------------------------------------------------------------ check_output
\* if 'input' in kwargs and kwargs['input'] is None: kwargs['input'] = b''
\* ('' is not reachable: universal_newlines in kwargs has raised before)
NormaliseInput(input) == IF input = "None" THEN "empty" ELSE input

\* a slip: stdout=PIPE is left out of the call of run
CheckOutputFrame_NoPipe(r) ==
    [cmd |-> r.cmd, timeout |-> r.timeout, check |-> r.check, ssh |-> r.ssh,
     input |-> NormaliseInput(r.input), stdin |-> r.stdin,
     stdout |-> "absent", stderr |-> PIPE, universal_newlines |-> TRUE]

\* the keywords check_output hands to run
CheckOutputFrame(r) ==
    [cmd |-> r.cmd, timeout |-> r.timeout, check |-> r.check, ssh |-> r.ssh,
     input |-> NormaliseInput(r.input), stdin |-> r.stdin,
     stdout |-> PIPE, stderr |-> PIPE, universal_newlines |-> TRUE]

\* the keywords a direct caller of run hands to it
RunFrame(r) ==
    [cmd |-> r.cmd, timeout |-> r.timeout, check |-> r.check, ssh |-> r.ssh,
     input |-> r.input, stdin |-> r.stdin,
     stdout |-> IF r.stdoutKw THEN PIPE ELSE "absent",
     stderr |-> IF r.stdoutKw THEN PIPE ELSE "absent",
     universal_newlines |-> r.univKw]

\* a slip: only the stdout keyword is refused
Forbidden_StdoutOnly(r) == r.stdoutKw

\* the two ValueError checks at the head of check_output
Forbidden(r) == r.stdoutKw \/ r.univKw

\* check_output up to its call of run
Begin(r, e) ==
    /\ req' = r
    /\ env' = e
    /\ child' = "none"
    /\ log' = <<>>
    /\ loc' = NoLoc
    /\ ret' = NoRet
    /\ IF r.entry = "check_output" /\ Forbidden(r)
       THEN /\ outcome' = [kind |-> "ValueError"]
            /\ pc' = "done"
            /\ frame' = NoFrame
       ELSE /\ outcome' = NoOutcome
            /\ pc' = "run"
            /\ frame' = IF r.entry = "check_output"
                        THEN CheckOutputFrame(r) ELSE RunFrame(r)

CallCheckOutput ==
    /\ pc = "idle"
    /\ \E r \in Requests : \E e \in Envs(r) :
          r.entry = "check_output" /\ Begin(r, e)
    /\ UNCHANGED hist

CallRun ==
    /\ pc = "idle"
    /\ \E r \in Requests : \E e \in Envs(r) :
          r.entry = "run" /\ Begin(r, e)
    /\ UNCHANGED hist

\* ------------------------------------------------- the return of run
\* return sp.CompletedProcess(popenargs[0], retcode, stdout, stderr), to the
\* direct caller or to check_output, which goes on to ret.check_returncode()
Return(cp) ==
    IF req.entry = "run"
    THEN /\ outcome' = [kind |-> "returned", completed |-> cp]
         /\ pc' = "done"
         /\ UNCHANGED ret
    ELSE /\ ret' = cp
         /\ pc' = "check_returncode"
         /\ UNCHANGED outcome

\* an exception leaves run, and check_output catches nothing
Raise(exc) ==
    /\ outcome' = exc
    /\ pc' = "done"
    /\ UNCHANGED ret

\* a slip: a non-zero exit code is raised whatever the check flag
Finish_Unchecked(retcode, stdout, stderr) ==
    IF retcode # 0
    THEN Raise(CalledProcessError(retcode, frame.cmd, stdout, stderr))
    ELSE Return(CompletedProcessOf(frame.cmd, retcode, stdout, stderr))

\* if check and retcode: raise sp.CalledProcessError(...), else the return
Finish(retcode, stdout, stderr) ==
    IF frame.check /\ retcode # 0
    THEN Raise(CalledProcessError(retcode, frame.cmd, stdout, stderr))
    ELSE Return(CompletedProcessOf(frame.cmd, retcode, stdout, stderr))

\* ------------------------------------------------------------- local run
\* what communicate() returns for a stream: None unless it is a pipe, text
\* under universal_newlines and bytes otherwise
Captured(mode, text) ==
    IF mode # PIPE THEN None
    ELSE IF frame.universal_newlines THEN text ELSE Bytes(text)

\* sp.Popen(*popenargs, **kwargs): run passes every keyword it does not name
\* itself, input included, and Popen takes no input keyword
PopenAccepts(f) == f.input = "absent"

\* Popen is given popenargs[0] as it is, with no shell keyword: a list is
\* the program and its arguments, while a str is taken whole as the name of
\* the program, and a command line of several words names none
PopenFinds(f) == ~f.cmd.isstr

Popen ==
    /\ pc = "run"
    /\ ~frame.ssh
    /\ IF ~PopenAccepts(frame)
       THEN /\ Raise([kind |-> "TypeError"])
            /\ UNCHANGED child
       ELSE IF ~PopenFinds(frame)
       THEN /\ Raise([kind |-> "FileNotFoundError"])
            /\ UNCHANGED child
       ELSE /\ child' = "running"
            /\ pc' = "communicate"
            /\ UNCHANGED <<outcome, ret>>
    /\ UNCHANGED <<req, frame, env, log, loc, hist>>

\* process.communicate(timeout=timeout) returns: the child has exited and
\* has been waited for
CommunicateReturns ==
    /\ pc = "communicate"
    /\ env.fate = "exit"
    /\ child' = "reaped"
    /\ loc' = [loc EXCEPT !.stdout = Captured(frame.stdout, env.out),
                          !.stderr = Captured(frame.stderr, env.err)]
    /\ pc' = "poll"
    /\ UNCHANGED <<req, frame, env, log, ret, outcome, hist>>

\* retcode = process.poll(); the check; the with block ends; the return
LocalFinish ==
    /\ pc = "poll"
    /\ loc' = [loc EXCEPT !.retcode = env.rc]
    /\ Finish(env.rc, loc.stdout, loc.stderr)
    /\ UNCHANGED <<req, frame, env, child, log, hist>>

\* communicate raises sp.TimeoutExpired: the child is still running
CommunicateTimesOut ==
    /\ pc = "communicate"
    /\ env.fate \in {"timeout", "timeout_held"}
    /\ frame.timeout # "None"
    /\ pc' = "except_timeout"
    /\ UNCHANGED <<req, frame, env, child, log, loc, ret, outcome, hist>>

\* process.kill()
Kill ==
    /\ pc = "except_timeout"
    /\ child' = "killed"
    /\ pc' = "drain"
    /\ UNCHANGED <<req, frame, env, log, loc, ret, outcome, hist>>

\* a slip: the drained text is not handed to the exception
Drain_NoOutput ==
    /\ pc = "drain"
    /\ env.fate # "timeout_held"
    /\ child' = "reaped"
    /\ loc' = [loc EXCEPT !.stdout = Captured(frame.stdout, env.out),
                          !.stderr = Captured(frame.stderr, env.err)]
    /\ Raise(TimeoutExpired(frame.cmd, frame.timeout, None, None))
    /\ UNCHANGED <<req, frame, env, log, hist>>

\* stdout, stderr = process.communicate(); raise sp.TimeoutExpired(...)
\* communicate is called without a timeout: it returns when both pipes have
\* reached their end and the child has been waited for
Drain ==
    /\ pc = "drain"
    /\ env.fate # "timeout_held"
    /\ child' = "reaped"
    /\ loc' = [loc EXCEPT !.stdout = Captured(frame.stdout, env.out),
                          !.stderr = Captured(frame.stderr, env.err)]
    /\ Raise(TimeoutExpired(frame.cmd, frame.timeout,
                            Captured(frame.stdout, env.out),
                            Captured(frame.stderr, env.err)))
    /\ UNCHANGED <<req, frame, env, log, hist>>

\* communicate raises an exception that is not sp.TimeoutExpired: the bare
\* except clause is next, and the child is still running
CommunicateInterrupted ==
    /\ pc = "communicate"
    /\ env.fate = "interrupt"
    /\ pc' = "except_other"
    /\ UNCHANGED <<req, frame, env, child, log, loc, ret, outcome, hist>>

\* except: process.kill()
KillInterrupted ==
    /\ pc = "except_other"
    /\ child' = "killed"
    /\ pc' = "wait"
    /\ UNCHANGED <<req, frame, env, log, loc, ret, outcome, hist>>

\* a slip: the clause ends as the one above it, with sp.TimeoutExpired
WaitAndReraise_AsTimeout ==
    /\ pc = "wait"
    /\ child' = "reaped"
    /\ Raise(TimeoutExpired(frame.cmd, frame.timeout, None, None))
    /\ UNCHANGED <<req, frame, env, log, loc, hist>>

\* process.wait(); raise
WaitAndReraise ==
    /\ pc = "wait"
    /\ child' = "reaped"
    /\ Raise([kind |-> "Interrupt"])
    /\ UNCHANGED <<req, frame, env, log, loc, hist>>

\* ------------------------------------------------------------ remote run
\* ' '.join(popenargs[0]) if not isinstance(popenargs[0], str) else popenargs[0]
RECURSIVE Join(_)
Join(words) ==
    IF Len(words) = 0 THEN <<>>
    ELSE IF Len(words) = 1 THEN words[1]
    ELSE words[1] \o <<" ">> \o Join(Tail(words))

CommandLine(cmd) == IF cmd.isstr THEN cmd.words[1] ELSE Join(cmd.words)

\* socket.timeout is caught: the except clause of the try block is next
CatchSocketTimeout ==
    /\ pc' = "except_socket_timeout"
    /\ UNCHANGED <<loc, ret, outcome>>

\* stdin, stdout, stderr = ssh.exec_command(args, timeout=timeout)
ExecCommand ==
    /\ pc = "run"
    /\ frame.ssh
    /\ log' = Append(log, [op |-> "exec_command", args |-> CommandLine(frame.cmd),
                           timeout |-> frame.timeout])
    /\ IF env.fate = "exec_fail"
       THEN Raise([kind |-> "SSHException"]) /\ UNCHANGED loc
       ELSE IF env.fate = "timeout_exec"
       THEN CatchSocketTimeout
       ELSE /\ loc' = [loc EXCEPT !.stdout = Handle, !.stderr = Handle]
            /\ pc' = "copy"
            /\ UNCHANGED <<ret, outcome>>
    /\ UNCHANGED <<req, frame, env, child, hist>>

\* if kwargs.get('stdin', None): shutil.copyfileobj(kwargs['stdin'], stdin, 128*1024)
CopyInput ==
    /\ pc = "copy"
    /\ IF frame.stdin = "absent"
       THEN /\ pc' = "close"
            /\ UNCHANGED <<log, loc, ret, outcome>>
       ELSE /\ log' = Append(log, [op |-> "write"])
            /\ IF env.fate = "timeout_copy"
               THEN CatchSocketTimeout
               ELSE pc' = "close" /\ UNCHANGED <<loc, ret, outcome>>
    /\ UNCHANGED <<req, frame, env, child, hist>>

\* a slip: stdin.close() written inside the if, after the copy
CloseStdin_AfterCopyOnly ==
    /\ pc = "close"
    /\ log' = IF frame.stdin = "absent" THEN log ELSE Append(log, [op |-> "close"])
    /\ pc' = "recv_exit_status"
    /\ UNCHANGED <<req, frame, env, child, loc, ret, outcome, hist>>

\* stdin.close()
CloseStdin ==
    /\ pc = "close"
    /\ log' = Append(log, [op |-> "close"])
    /\ pc' = "recv_exit_status"
    /\ UNCHANGED <<req, frame, env, child, loc, ret, outcome, hist>>

\* retcode = stdout.channel.recv_exit_status(), which takes no timeout: the
\* call returns when the exit status has arrived
RecvExitStatus ==
    /\ pc = "recv_exit_status"
    /\ env.fate # "no_status"
    /\ log' = Append(log, [op |-> "recv_exit_status"])
    /\ IF env.fate = "timeout_status"
       THEN CatchSocketTimeout
       ELSE /\ loc' = [loc EXCEPT !.retcode = env.rc]
            /\ pc' = "read_stdout"
            /\ UNCHANGED <<ret, outcome>>
    /\ UNCHANGED <<req, frame, env, child, hist>>

\* ''.join(stdout.readlines()), the first element of the tuple of line 114
ReadStdout ==
    /\ pc = "read_stdout"
    /\ log' = Append(log, [op |-> "read_stdout"])
    /\ IF env.fate = "timeout_out"
       THEN CatchSocketTimeout
       ELSE /\ loc' = [loc EXCEPT !.read = env.out]
            /\ pc' = "read_stderr"
            /\ UNCHANGED <<ret, outcome>>
    /\ UNCHANGED <<req, frame, env, child, hist>>

\* ''.join(stderr.readlines()), and the assignment of both stdout and stderr
ReadStderr ==
    /\ pc = "read_stderr"
    /\ log' = Append(log, [op |-> "read_stderr"])
    /\ IF env.fate = "timeout_err"
       THEN CatchSocketTimeout
       ELSE /\ loc' = [loc EXCEPT !.stdout = loc.read, !.stderr = env.err]
            /\ pc' = "remote_check"
            /\ UNCHANGED <<ret, outcome>>
    /\ UNCHANGED <<req, frame, env, child, hist>>

\* except socket.timeout: stdout, stderr, retcode = None, None, 1; raise
\* sp.TimeoutExpired(popenargs[0], timeout, output=stdout, stderr=stderr)
\* a slip: the exception is given the output text read so far, as the local
\* branch does
SocketTimeoutExpired_Partial(f, l) == TimeoutExpired(f.cmd, f.timeout, l.read, None)

SocketTimeoutExpired(f, l) == TimeoutExpired(f.cmd, f.timeout, None, None)

ExceptSocketTimeout ==
    /\ pc = "except_socket_timeout"
    /\ loc' = [loc EXCEPT !.stdout = None, !.stderr = None, !.retcode = 1]
    /\ Raise(SocketTimeoutExpired(frame, loc))
    /\ UNCHANGED <<req, frame, env, child, log, hist>>

\* if check and retcode: raise sp.CalledProcessError(...); the return
RemoteFinish ==
    /\ pc = "remote_check"
    /\ Finish(loc.retcode, loc.stdout, loc.stderr)
    /\ UNCHANGED <<req, frame, env, child, log, loc, hist>>

\* ------------------------------------------------- check_output, after run
\* ret.check_returncode()
CheckReturncode ==
    /\ pc = "check_returncode"
    /\ IF check_returncode(ret) # NoException
       THEN outcome' = check_returncode(ret) /\ pc' = "done"
       ELSE pc' = "decode" /\ UNCHANGED outcome
    /\ UNCHANGED <<req, frame, env, child, log, loc, ret, hist>>

\* out = ret.stdout; return None if out is None else [...]
DecodeOutput ==
    /\ pc = "decode"
    /\ outcome' = Decode(ret.stdout)
    /\ pc' = "done"
    /\ UNCHANGED <<req, frame, env, child, log, loc, ret, hist>>

\* ------------------------------------------------------------ specification
Next ==
    \/ CallCheckOutput
    \/ CallRun
    \/ Popen
    \/ CommunicateReturns
    \/ LocalFinish
    \/ CommunicateTimesOut
    \/ Kill
    \/ Drain
    \/ CommunicateInterrupted
    \/ KillInterrupted
    \/ WaitAndReraise
    \/ ExecCommand
    \/ CopyInput
    \/ CloseStdin
    \/ RecvExitStatus
    \/ ReadStdout
    \/ ReadStderr
    \/ ExceptSocketTimeout
    \/ RemoteFinish
    \/ CheckReturncode
    \/ DecodeOutput

Spec == Init /\ [][Next]_vars

\* ------------------------------------------- calls with a finite timeout
\* The calls whose waits the timeout is to bound: a finite timeout, on either
\* entry and backend, with the options that bear on what is waited for.
LiveRequests ==
    {r \in Requests : /\ r.timeout = "finite"
                      /\ r.cmd = CmdList
                      /\ r.input = "absent"
                      /\ r.univKw = r.stdoutKw}

CallWithTimeout ==
    /\ pc = "idle"
    /\ \E r \in LiveRequests : \E e \in Envs(r) : Begin(r, e)
    /\ UNCHANGED hist

NextLive ==
    \/ CallWithTimeout
    \/ Popen
    \/ CommunicateReturns
    \/ LocalFinish
    \/ CommunicateTimesOut
    \/ Kill
    \/ Drain
    \/ CommunicateInterrupted
    \/ KillInterrupted
    \/ WaitAndReraise
    \/ ExecCommand
    \/ CopyInput
    \/ CloseStdin
    \/ RecvExitStatus
    \/ ReadStdout
    \/ ReadStderr
    \/ ExceptSocketTimeout
    \/ RemoteFinish
    \/ CheckReturncode
    \/ DecodeOutput

\* a call that can take a step takes it: the interpreter runs the statement
\* it stands at, and a blocking call returns or raises once it is able to
SpecLive == Init /\ [][NextLive]_vars /\ WF_vars(NextLive)

\* ------------------------------------- the classifier on its own inputs
\* The texts a CompletedProcess may hold as stderr: a head, an action of one
\* or more tokens, an object token, a separator, a reason and a tail.
Heads ==
    {CannotPrefix,
     <<"C", "a", "n", "n", "o", "t", " ">>,
     <<"w", "\n">> \o CannotPrefix}

ActionTokens == {<<"o", "p", "e", "n">>, <<"x", ":">>}
Actions ==
    {<<a>> : a \in ActionTokens}
    \cup {<<<<"s", "e", "t">>, a>> : a \in ActionTokens}
    \cup {<<<<"x", ":">>, <<"o", "p", "e", "n">>>>}

Objects ==
    {<<"t">>, <<"'", "t", "'">>, <<"'", "t">>, <<"t", "'">>, <<"'">>,
     <<"'", "'">>, <<"t", ":">>, <<"'", "t", "/", "d", "@", "s", "'">>}

Separators == {<<":", " ">>, <<":">>}

Reasons ==
    {KnownErrors[i].strerror : i \in 1..Len(KnownErrors)}
    \cup {<<"d", "e", "n", "i", "e", "d">>,
          DatasetBusyError.strerror \o <<" ">>,
          <<"D">> \o Tail(DatasetBusyError.strerror)}

Tails == {<<>>, <<"\n">>, <<"\n", "x">>}

Message(head, action, object, sep, reason, tail) ==
    head \o Join(action) \o <<" ">> \o object \o sep \o reason \o tail

ClassifierTexts ==
    {Message(h, a, o, p, r, t) :
        h \in Heads, a \in Actions, o \in Objects, p \in Separators,
        r \in Reasons, t \in Tails}
    \cup {<<>>}

\* a CompletedProcess of a check_output call, about to be classified
InitClassify ==
    /\ pc = "check_returncode"
    /\ req \in {r \in Requests :
                  /\ r.entry = "check_output" /\ r.cmd = CmdList /\ ~r.ssh
                  /\ r.timeout = "None" /\ ~r.check /\ r.input = "absent"
                  /\ r.stdin = "absent" /\ ~r.stdoutKw /\ ~r.univKw}
    /\ frame = CheckOutputFrame(req)
    /\ env \in [fate : {"exit"}, rc : ExitCodes, out : {OutTable},
                err : ClassifierTexts]
    /\ child = "reaped"
    /\ log = <<>>
    /\ loc = [NoLoc EXCEPT !.stdout = env.out, !.stderr = env.err,
                           !.retcode = env.rc]
    /\ ret = CompletedProcessOf(frame.cmd, env.rc, env.out, env.err)
    /\ outcome = NoOutcome
    /\ hist = {}

NextClassify == CheckReturncode \/ DecodeOutput

SpecClassify == InitClassify /\ [][NextClassify]_vars

\* --------------------------------------- the decoder on its own inputs
\* What the wrapped tool prints: records of fields, each line a record with
\* its fields joined by tabs; the lines joined by "\n" ("separated") or each
\* line ended by "\n" ("terminated").
FieldTexts == {<<>>, <<"a">>, <<"a", "b">>}

SeqsUpTo(S, n) == UNION {[1..k -> S] : k \in 0..n}

RecordsOf == SeqsUpTo(FieldTexts, MaxFields) \ {<<>>}

RECURSIVE JoinWith(_, _)
JoinWith(parts, sep) ==
    IF Len(parts) = 0 THEN <<>>
    ELSE IF Len(parts) = 1 THEN parts[1]
    ELSE parts[1] \o sep \o JoinWith(Tail(parts), sep)

RECURSIVE EndEach(_, _)
EndEach(parts, end) ==
    IF Len(parts) = 0 THEN <<>>
    ELSE parts[1] \o end \o EndEach(Tail(parts), end)

Encode(records, style) ==
    LET lines == [i \in 1..Len(records) |-> JoinWith(records[i], <<"\t">>)]
    IN  IF style = "separated" THEN JoinWith(lines, <<"\n">>)
        ELSE EndEach(lines, <<"\n">>)

DecoderAlphabet == {"a", "\t", "\n", "\r", "\f"}

DecoderEnvs ==
    [fate : {"records"}, records : SeqsUpTo(RecordsOf, MaxRecords),
     style : {"separated", "terminated"}]
    \cup [fate : {"text"}, out : SeqsUpTo(DecoderAlphabet, MaxLen) \cup {None}]

Printed(e) == IF e.fate = "records" THEN Encode(e.records, e.style) ELSE e.out

\* a CompletedProcess with exit code 0, about to be decoded
InitDecode ==
    /\ pc = "decode"
    /\ req \in {r \in Requests :
                  /\ r.entry = "check_output" /\ r.cmd = CmdList /\ ~r.ssh
                  /\ r.timeout = "None" /\ ~r.check /\ r.input = "absent"
                  /\ r.stdin = "absent" /\ ~r.stdoutKw /\ ~r.univKw}
    /\ frame = CheckOutputFrame(req)
    /\ env \in DecoderEnvs
    /\ child = "reaped"
    /\ log = <<>>
    /\ loc = [NoLoc EXCEPT !.stdout = Printed(env), !.stderr = <<>>,
                           !.retcode = 0]
    /\ ret = CompletedProcessOf(frame.cmd, 0, Printed(env), <<>>)
    /\ outcome = NoOutcome
    /\ hist = {}

NextDecode == DecodeOutput

SpecDecode == InitDecode /\ [][NextDecode]_vars

\* ------------------------- the same command under another input option
\* check_output is called again for the same request and the same behaviour
\* of the command, with only the input option changed; hist keeps what the
\* earlier calls gave.
Retry ==
    /\ pc = "done"
    /\ req.entry = "check_output"
    /\ \E i \in Inputs \ ({req.input} \cup {h.input : h \in hist}) :
          Begin([req EXCEPT !.input = i], env)
    /\ hist' = hist \cup {[input |-> req.input, outcome |-> outcome]}

NextInput == Next \/ Retry

SpecInput == Init /\ [][NextInput]_vars

\* ------------------------------ the same command on the other backend
\* The same request is made again with only the session given or taken
\* away, for a command that runs to its end with the same exit code, output
\* and error text; hist keeps what the first call gave.
RetryOtherBackend ==
    /\ pc = "done"
    /\ hist = {}
    /\ env.fate = "exit"
    /\ Begin([req EXCEPT !.ssh = ~req.ssh], env)
    /\ hist' = {[ssh |-> req.ssh, outcome |-> outcome]}

NextBackend == Next \/ RetryOtherBackend

SpecBackend == Init /\ [][NextBackend]_vars

\* ================================================================ claims
\* the command ran to its end and run collected exit code and both streams
CommandCompleted ==
    /\ env.fate = "exit"
    /\ IF req.ssh
       THEN log # <<>> /\ log[Len(log)].op = "read_stderr"
       ELSE child = "reaped"

\* the table of known reasons: reason text, error kind, symbolic code
ReasonTable ==
    <<[reason |-> <<"d", "a", "t", "a", "s", "e", "t", " ", "d", "o", "e", "s",
                    " ", "n", "o", "t", " ", "e", "x", "i", "s", "t">>,
       class |-> "DatasetNotFoundError", errno |-> "ENOENT"],
      [reason |-> <<"d", "a", "t", "a", "s", "e", "t", " ", "a", "l", "r", "e",
                    "a", "d", "y", " ", "e", "x", "i", "s", "t", "s">>,
       class |-> "DatasetExistsError", errno |-> "EEXIST"],
      [reason |-> <<"d", "a", "t", "a", "s", "e", "t", " ", "i", "s", " ", "b",
                    "u", "s", "y">>,
       class |-> "DatasetBusyError", errno |-> "EBUSY"],
      [reason |-> <<"n", "o", " ", "s", "u", "c", "h", " ", "t", "a", "g", " ",
                    "o", "n", " ", "t", "h", "i", "s", " ", "d", "a", "t", "a",
                    "s", "e", "t">>,
       class |-> "HoldTagNotFoundError", errno |-> "ENOENT"],
      [reason |-> <<"t", "a", "g", " ", "a", "l", "r", "e", "a", "d", "y", " ",
                    "e", "x", "i", "s", "t", "s", " ", "o", "n", " ", "t", "h",
                    "i", "s", " ", "d", "a", "t", "a", "s", "e", "t">>,
       class |-> "HoldTagExistsError", errno |-> "EEXIST"]>>

\* actions none of whose tokens after the first ends in a colon: the text
\* then has no colon-space boundary at which an object token could end
\* before the one of the message, and the grammar reads it in one way
PlainActions ==
    {a \in Actions : \A i \in 2..Len(a) : a[i][Len(a[i])] # ":"}

\* the object token without its first and last character when both are a
\* single quote (a token that is one quote alone gives the empty name)
ExpectedObject(o) ==
    IF o[1] = "'" /\ o[Len(o)] = "'"
    THEN [i \in 1..(Len(o) - 2) |-> o[i + 1]]
    ELSE o

\* C1: with exit code 1 and an error text `cannot <action> <object>: <reason>`
\* (one line, with or without its final newline) whose reason is one of the
\* five known reasons, check_returncode raises the error class the table
\* gives for that reason, with the table's errno, carrying the object token
\* with its surrounding single quotes removed when it has a quote at both
\* ends and unchanged otherwise.
C1_KnownReasonClassified ==
    (pc # "check_returncode" /\ ret.returncode = 1) =>
        \A a \in PlainActions, o \in Objects, row \in 1..Len(ReasonTable),
           t \in {<<>>, <<"\n">>} :
            ret.stderr = Message(CannotPrefix, a, o, <<":", " ">>,
                                 ReasonTable[row].reason, t)
            => /\ pc = "done"
               /\ outcome = [kind |-> "ZFSError",
                             class |-> ReasonTable[row].class,
                             errno |-> ReasonTable[row].errno,
                             strerror |-> ReasonTable[row].reason,
                             dataset |-> ExpectedObject(o)]

C1_Witness ==
    /\ pc = "done"
    /\ ret.returncode = 1
    /\ ret.stderr = Message(CannotPrefix, <<<<"s", "e", "t">>, <<"o", "p", "e", "n">>>>,
                            <<"'", "t", "/", "d", "@", "s", "'">>, <<":", " ">>,
                            ReasonTable[5].reason, <<"\n">>)
    /\ outcome.kind = "ZFSError"
    /\ outcome.class = "HoldTagExistsError"
    /\ outcome.dataset = <<"t", "/", "d", "@", "s">>

\* C2: with an exit code other than 1 check_returncode raises no ZFSError,
\* whatever the error text is; with a non-zero code other than 1 it raises
\* CalledProcessError with the exit code, the command and both streams, and
\* with exit code 0 it raises nothing.
C2_OnlyExitCodeOne ==
    (pc # "check_returncode" /\ ret.returncode # 1) =>
        /\ outcome.kind # "ZFSError"
        /\ ret.returncode # 0 =>
              /\ pc = "done"
              /\ outcome = [kind |-> "CalledProcessError",
                            returncode |-> ret.returncode, cmd |-> ret.args,
                            output |-> ret.stdout, stderr |-> ret.stderr]
        /\ ret.returncode = 0 => outcome.kind \in {"pending", "returned"}

C2_Witness ==
    /\ pc = "done"
    /\ ret.returncode = 2
    /\ ret.stderr = Message(CannotPrefix, <<<<"o", "p", "e", "n">>>>,
                            <<"'", "t", "'">>, <<":", " ">>,
                            ReasonTable[3].reason, <<"\n">>)
    /\ outcome.kind = "CalledProcessError"

\* C3: whenever a command run through check_output completes with exit code
\* 1 and a recognized error message, the caller receives the classified
\* error, whatever the check flag and the backend.
C3_ClassifiedBeforeGeneric ==
    (/\ pc = "done"
     /\ req.entry = "check_output"
     /\ CommandCompleted
     /\ env.rc = 1
     /\ env.err = ErrBusy)
    => /\ outcome.kind = "ZFSError"
       /\ outcome.class = "DatasetBusyError"

\* C4: a check_output call has no outcome before it ends and one when it has
\* ended; it returns records exactly when the command completed with exit
\* code 0; for a completed command with a non-zero exit code that is not
\* exit code 1 with a recognized message it raises CalledProcessError with
\* that exit code, the command and the raw output and error text.
C4_OneOutcome ==
    req.entry = "check_output" =>
        /\ pc # "done" => outcome = NoOutcome
        /\ pc = "done" =>
              /\ outcome.kind # "pending"
              /\ outcome.kind = "returned" <=> (CommandCompleted /\ env.rc = 0)
              /\ outcome.kind = "returned" => ~outcome.isNone
              /\ (/\ CommandCompleted
                  /\ env.rc # 0
                  /\ ~(env.rc = 1 /\ env.err = ErrBusy))
                 => outcome = [kind |-> "CalledProcessError",
                               returncode |-> env.rc, cmd |-> req.cmd,
                               output |-> env.out, stderr |-> env.err]

C4_Witness ==
    /\ pc = "done"
    /\ req.entry = "check_output"
    /\ ~req.check
    /\ CommandCompleted
    /\ env.rc = 1
    /\ env.err = ErrDenied
    /\ outcome.kind = "CalledProcessError"
    /\ outcome.returncode = 1

\* what a local stream holds for the caller's capture options
ExpectedCapture(text) ==
    IF req.entry = "check_output" THEN text
    ELSE IF ~req.stdoutKw THEN None
    ELSE IF req.univKw THEN text ELSE Bytes(text)

\* C5: in a local run whose child is still running when the timeout elapses,
\* the child is killed before the drain, no result is returned, the call
\* ends with TimeoutExpired carrying the command, the timeout and the
\* drained output and error text, and the child has then been waited for.
C5_LocalTimeout ==
    (/\ req.entry # "none"
     /\ ~req.ssh
     /\ env.fate = "timeout"
     /\ pc \notin {"run", "communicate"}
     /\ child # "none")
    => /\ pc \in {"except_timeout", "drain", "done"}
       /\ pc = "except_timeout" => child = "running" /\ outcome = NoOutcome
       /\ pc = "drain" => child = "killed" /\ outcome = NoOutcome
       /\ pc = "done" =>
             /\ child = "reaped"
             /\ outcome = [kind |-> "TimeoutExpired", cmd |-> req.cmd,
                           timeout |-> req.timeout,
                           output |-> ExpectedCapture(env.out),
                           stderr |-> ExpectedCapture(env.err)]

C5_Witness ==
    /\ pc = "done"
    /\ req.entry = "run"
    /\ ~req.ssh
    /\ req.timeout = "finite"
    /\ child = "reaped"
    /\ outcome.kind = "TimeoutExpired"
    /\ outcome.output = OutTable
    /\ outcome.stderr = ErrBusy

RemoteTimeoutFates ==
    {"timeout_exec", "timeout_copy", "timeout_status", "timeout_out", "timeout_err"}

\* the channel operation at which each fate raises socket.timeout
StepOf(fate) ==
    CASE fate = "timeout_exec" -> "exec_command"
      [] fate = "timeout_copy" -> "write"
      [] fate = "timeout_status" -> "recv_exit_status"
      [] fate = "timeout_out" -> "read_stdout"
      [] fate = "timeout_err" -> "read_stderr"

\* C6: in a remote run the call returns no result and raises neither
\* CalledProcessError nor a ZFSError when the transport times out; once
\* socket.timeout has been raised at the execution request, the input
\* streaming, the wait for the exit status or the read of the output or of
\* the error, the call ends with TimeoutExpired carrying the command and
\* the timeout, with output and stderr None, also when output text had been
\* read.
C6_RemoteTimeout ==
    (/\ req.entry # "none"
     /\ req.ssh
     /\ env.fate \in RemoteTimeoutFates)
    => /\ outcome.kind \notin {"returned", "CalledProcessError", "ZFSError"}
       /\ (log # <<>> /\ log[Len(log)].op = StepOf(env.fate)) =>
             /\ pc \in {"except_socket_timeout", "done"}
             /\ pc # "done" => outcome = NoOutcome
             /\ pc = "done" =>
                   outcome = [kind |-> "TimeoutExpired", cmd |-> req.cmd,
                              timeout |-> req.timeout, output |-> None,
                              stderr |-> None]

C6_Witness ==
    /\ pc = "done"
    /\ req.ssh
    /\ env.fate = "timeout_err"
    /\ loc.read = OutTable
    /\ log[Len(log)].op = "read_stderr"
    /\ outcome.kind = "TimeoutExpired"
    /\ outcome.output = None

\* C7: check_output called with stdout or universal_newlines among its
\* keywords ends with ValueError, with no child in the process table and no
\* operation made on the session.
C7_ForbiddenOption ==
    (req.entry = "check_output" /\ (req.stdoutKw \/ req.univKw))
    => /\ pc = "done"
       /\ outcome = [kind |-> "ValueError"]
       /\ child = "none"
       /\ log = <<>>

C7_Witness ==
    /\ pc = "done"
    /\ req.entry = "check_output"
    /\ req.univKw
    /\ ~req.stdoutKw
    /\ req.ssh
    /\ outcome.kind = "ValueError"
    /\ log = <<>>

\* C8: check_output gives the same outcome for the same request and the same
\* behaviour of a command that runs to its end, whether the input is None,
\* an empty payload or not given at all.
C8_InputEquivalence ==
    (/\ pc = "done"
     /\ req.entry = "check_output"
     /\ env.fate = "exit"
     /\ req.input \in {"absent", "None", "empty"})
    => \A h \in hist :
          h.input \in {"absent", "None", "empty"} => h.outcome = outcome

\* C9 as stated: records of one or more tab-free, line-break-free fields,
\* encoded as tab-joined lines separated by newlines, decode to themselves.
C9_RoundTripSeparated ==
    (pc = "done" /\ env.fate = "records" /\ env.style = "separated")
    => ~outcome.isNone /\ outcome.records = env.records

\* C9 as amended: the records decode to themselves when every line, the
\* last included, ends with a newline; with newlines only between the lines
\* they do unless the last record is a single empty field.
C9_RoundTrip ==
    (/\ pc = "done"
     /\ env.fate = "records"
     /\ \/ env.style = "terminated"
        \/ env.records = <<>>
        \/ env.records[Len(env.records)] # << <<>> >>)
    => ~outcome.isNone /\ outcome.records = env.records

C9_Witness ==
    /\ pc = "done"
    /\ env.fate = "records"
    /\ env.style = "separated"
    /\ env.records = << << <<>>, <<"a">> >>, << <<"a", "b">>, <<>> >> >>
    /\ outcome.records = env.records

\* the text with every line boundary ("\r\n" as one) written as "\n", and a
\* "\n" added when the text does not end with a boundary
RECURSIVE EndLines(_, _)
EndLines(s, i) ==
    IF i > Len(s)
    THEN (IF s # <<>> /\ s[Len(s)] \notin LineBoundaries THEN <<"\n">> ELSE <<>>)
    ELSE IF s[i] = "\n" /\ i > 1 /\ s[i - 1] = "\r" THEN EndLines(s, i + 1)
    ELSE IF s[i] \in LineBoundaries THEN <<"\n">> \o EndLines(s, i + 1)
    ELSE <<s[i]>> \o EndLines(s, i + 1)

\* C10: the decoder returns None for None and an empty sequence for empty
\* text; for any text its records, each written as its fields joined by
\* tabs and ended by a newline, give the text line by line in order, and no
\* field holds a tab or a line boundary, so that each record has one field
\* more than its line has tabs, empty fields included.
C10_Decoder ==
    (pc = "done" /\ env.fate = "text") =>
        IF env.out = None THEN outcome.isNone
        ELSE /\ ~outcome.isNone
             /\ env.out = <<>> => outcome.records = <<>>
             /\ \A i \in 1..Len(outcome.records) :
                   /\ Len(outcome.records[i]) >= 1
                   /\ \A j \in 1..Len(outcome.records[i]) :
                         \A k \in 1..Len(outcome.records[i][j]) :
                            outcome.records[i][j][k] \notin LineBoundaries \cup {"\t"}
             /\ EndEach([i \in 1..Len(outcome.records) |->
                            JoinWith(outcome.records[i], <<"\t">>)], <<"\n">>)
                = EndLines(env.out, 1)

C10_Witness ==
    /\ pc = "done"
    /\ env.fate = "text"
    /\ env.out = <<"\t", "\t", "\n", "a">>
    /\ outcome.records = << << <<>>, <<>>, <<>> >>, << <<"a">> >> >>

\* the text a stream of a completed command holds for the caller: what the
\* capture options give for a local child, the text read from the handle for
\* a remote command
ExpectedStream(text) == IF req.ssh THEN text ELSE ExpectedCapture(text)

\* C11: a direct call of run whose command completed ends, when check is
\* unset or the exit code is 0, by returning the CompletedProcess with the
\* command, the exit code and both streams, also with exit code 1 and a
\* known error message; when check is set and the exit code is non-zero it
\* ends with CalledProcessError carrying the exit code, the command and both
\* streams; run raises CalledProcessError in no other case and never a
\* ZFSError.
C11_RunResult ==
    (pc = "done" /\ req.entry = "run") =>
        /\ outcome.kind # "ZFSError"
        /\ outcome.kind = "CalledProcessError"
              <=> (CommandCompleted /\ req.check /\ env.rc # 0)
        /\ CommandCompleted =>
              IF req.check /\ env.rc # 0
              THEN outcome = [kind |-> "CalledProcessError",
                              returncode |-> env.rc, cmd |-> req.cmd,
                              output |-> ExpectedStream(env.out),
                              stderr |-> ExpectedStream(env.err)]
              ELSE outcome = [kind |-> "returned",
                              completed |-> [args |-> req.cmd,
                                             returncode |-> env.rc,
                                             stdout |-> ExpectedStream(env.out),
                                             stderr |-> ExpectedStream(env.err)]]

C11_Witness ==
    /\ pc = "done"
    /\ req.entry = "run"
    /\ ~req.check
    /\ req.ssh
    /\ CommandCompleted
    /\ env.rc = 1
    /\ env.err = ErrBusy
    /\ outcome.kind = "returned"
    /\ outcome.completed.returncode = 1
    /\ outcome.completed.stderr = ErrBusy

\* the error lines `cannot <action> <token>: <object>: <reason>`: an action
\* of tokens that do not end in a colon, then a token, a colon and a space
TwoBoundaryActions ==
    {a \in Actions : /\ Len(a) >= 2
                     /\ a[Len(a)][Len(a[Len(a)])] = ":"
                     /\ \A i \in 1..(Len(a) - 1) : a[i][Len(a[i])] # ":"}

\* the last token of such an action without its colon
TokenOf(a) == SubSeq(a[Len(a)], 1, Len(a[Len(a)]) - 1)

WarningLine == <<"w", "\n">>

\* C13: with exit code 1, an error text that holds a line `cannot <action>
\* <object>: <known reason>` together with another line before it or after
\* it is classified as that line alone would be: the error of the known
\* reason is raised with the object of that line.
C13_LineScanned ==
    (pc # "check_returncode" /\ ret.returncode = 1) =>
        \A h \in {CannotPrefix, WarningLine \o CannotPrefix},
           a \in PlainActions, o \in Objects, row \in 1..Len(ReasonTable),
           t \in Tails :
            (/\ (h # CannotPrefix \/ t = <<"\n", "x">>)
             /\ ret.stderr = Message(h, a, o, <<":", " ">>,
                                     ReasonTable[row].reason, t))
            => /\ pc = "done"
               /\ outcome.kind = "ZFSError"
               /\ outcome.class = ReasonTable[row].class
               /\ outcome.dataset = ExpectedObject(o)

\* C14: in a local call whose child was spawned, the child has been waited
\* for whenever run has left its with block (at the check of the exit code,
\* in check_output after run, and when the call has ended), and a call ends
\* with no child only when none was spawned (ValueError of check_output,
\* TypeError or FileNotFoundError of Popen); when communicate is interrupted
\* by an exception other than the timeout the child is still running at the
\* except clause, is killed before the wait, and the call ends with that
\* same exception once the child has been waited for.
C14_Reaped ==
    (req.entry # "none" /\ ~req.ssh) =>
        /\ pc \in {"poll", "check_returncode", "decode"} => child = "reaped"
        /\ pc = "done" => child \in {"none", "reaped"}
        /\ (pc = "done" /\ child = "none")
              => outcome.kind \in {"ValueError", "TypeError", "FileNotFoundError"}
        /\ pc = "except_other" => child = "running" /\ outcome = NoOutcome
        /\ pc = "wait" => child = "killed" /\ outcome = NoOutcome
        /\ (env.fate = "interrupt" /\ pc = "done" /\ child # "none")
              => child = "reaped" /\ outcome = [kind |-> "Interrupt"]

C14_Witness ==
    /\ pc = "done"
    /\ req.entry = "run"
    /\ ~req.ssh
    /\ env.fate = "interrupt"
    /\ child = "reaped"
    /\ outcome.kind = "Interrupt"

\* the call got as far as run (no ValueError at the head of check_output)
ReachedRun == ~(req.entry = "check_output" /\ (req.stdoutKw \/ req.univKw))

\* C15: a local call that is given an input (None through check_output
\* included, which becomes the empty payload) spawns the child and ends with
\* the outcome of the child: it does not end with an error of its own with
\* no child spawned.
C15_InputWritten ==
    (/\ pc = "done"
     /\ req.entry # "none"
     /\ ~req.ssh
     /\ req.input # "absent"
     /\ ReachedRun)
    => /\ child = "reaped"
       /\ outcome.kind # "TypeError"

\* the operations of the log, in order
Ops == [i \in 1..Len(log) |-> log[i].op]

\* the steps of a remote run that goes through, with and without a stdin
StepsWith(stdin) ==
    IF stdin = "file"
    THEN <<"exec_command", "write", "close", "recv_exit_status",
           "read_stdout", "read_stderr">>
    ELSE <<"exec_command", "close", "recv_exit_status",
           "read_stdout", "read_stderr">>

\* C16: the operations a remote run has made on the session and its channel
\* are at every moment the first ones of: execution request, streaming of
\* the stdin when one is given, close of the remote input, wait for the exit
\* status, read of the output, read of the error; once the execution request
\* has succeeded and the streaming, if any, has not been interrupted, the
\* run goes on to close the remote input once, before it waits for the exit
\* status, with and without a stdin.
C16_RemoteOrder ==
    (req.entry # "none" /\ req.ssh) =>
        /\ Len(Ops) <= Len(StepsWith(req.stdin))
        /\ Ops = SubSeq(StepsWith(req.stdin), 1, Len(Ops))
        /\ Cardinality({i \in 1..Len(Ops) : Ops[i] = "close"}) <= 1
        /\ (/\ Ops # <<>>
            /\ env.fate \notin {"exec_fail", "timeout_exec", "timeout_copy"}
            /\ pc \notin {"copy", "close"})
           => /\ Cardinality({i \in 1..Len(Ops) : Ops[i] = "close"}) = 1
              /\ \A i, j \in 1..Len(Ops) :
                    (Ops[i] = "close" /\ Ops[j] = "recv_exit_status") => i < j

C16_Witness ==
    /\ pc = "done"
    /\ req.ssh
    /\ req.stdin = "absent"
    /\ env.fate = "exit"
    /\ Ops = <<"exec_command", "close", "recv_exit_status",
               "read_stdout", "read_stderr">>
    /\ outcome.kind = "returned"

\* C17: every call made with a finite timeout ends: it returns a result or
\* raises, whatever the child or the remote command does.
C17_Terminates ==
    (req.entry # "none" /\ req.timeout = "finite") ~> (pc = "done")

\* C18: whenever check_output returns, it returns a sequence of records and
\* not None: on both backends the output of the CompletedProcess it decodes
\* is text.
C18_NeverNone ==
    req.entry = "check_output" =>
        /\ pc \in {"check_returncode", "decode"}
              => ret.stdout # None /\ IsText(ret.stdout)
        /\ outcome.kind = "returned"
              => /\ ~outcome.isNone
                 /\ outcome.records = Decode(env.out).records

C18_Witness ==
    /\ pc = "done"
    /\ req.entry = "check_output"
    /\ ~req.ssh
    /\ env.out = <<>>
    /\ outcome.kind = "returned"
    /\ ~outcome.isNone
    /\ outcome.records = <<>>

\* C19: for the same entry, command, check flag, input and capture options
\* and a command that runs to its end with the same exit code, output and
\* error text, the call gives the same outcome (the same result, or the same
\* error with the same command, exit code and streams) on the local backend
\* and over a session.
C19_BackendIndependence ==
    (pc = "done" /\ hist # {} /\ env.fate = "exit")
    => \A h \in hist : h.outcome = outcome

====
